---- MODULE Spec2Model ----
(***************************************************************************)
(* Model of the command line and configuration resolution of nav           *)
(* (src/config.go): the switch registry built by cmdLineItemInit, the      *)
(* handlers funcXxx, and the two-state scan of argsParse over os.Args[1:]. *)
(*                                                                         *)
(* Go strings are TLA+ strings.  strconv.Atoi reads a string character by  *)
(* character; TLC cannot index a string, so Chars gives the characters of  *)
(* every token of the alphabet and Atoi parses that sequence.              *)
(*                                                                         *)
(* argsParse ranges over os.Args[1:] from left to right and never looks    *)
(* ahead, so the model draws the next element of os.Args when the loop     *)
(* reaches it (ScanSwitch, ScanArgument) and decides that the slice is     *)
(* exhausted in argsParseEnd.  The contents of the file named by -f are an *)
(* input of the environment, drawn when funcJconf opens it.                *)
(***************************************************************************)
EXTENDS Integers, Sequences, FiniteSets, TLC

\* Longest os.Args[1:] explored.
MaxArgs == 6

(***************************************************************************)
(* Strings and strconv.Atoi                                                *)
(***************************************************************************)

\* The command lines explored: all the elements of one os.Args[1:] are drawn
\* from one of these vocabularies of switch tokens and values.
Vocabularies ==
  { { "-s", "-i", "-j", "-h", "foo", "1" },
    { "-s", "-i", "-f", "foo", "1" },
    { "-p", "-m", "-x", "0", "1", "2", "5", "99", "-1" },
    { "-s", "-i", "-x", "foo", "2", "3" } }

Tokens == UNION Vocabularies

\* The characters of each token (string indexing).
Chars ==
  [ t \in Tokens |->
      CASE t = "-j"  -> << "-", "j" >>
        [] t = "-s"  -> << "-", "s" >>
        [] t = "-i"  -> << "-", "i" >>
        [] t = "-f"  -> << "-", "f" >>
        [] t = "-p"  -> << "-", "p" >>
        [] t = "-m"  -> << "-", "m" >>
        [] t = "-x"  -> << "-", "x" >>
        [] t = "-h"  -> << "-", "h" >>
        [] t = "foo" -> << "f", "o", "o" >>
        [] t = "0"   -> << "0" >>
        [] t = "1"   -> << "1" >>
        [] t = "2"   -> << "2" >>
        [] t = "3"   -> << "3" >>
        [] t = "5"   -> << "5" >>
        [] t = "99"  -> << "9", "9" >>
        [] t = "-1"  -> << "-", "1" >> ]

Digits == { "0", "1", "2", "3", "4", "5", "6", "7", "8", "9" }

DigitVal(c) ==
  CASE c = "0" -> 0 [] c = "1" -> 1 [] c = "2" -> 2 [] c = "3" -> 3
    [] c = "4" -> 4 [] c = "5" -> 5 [] c = "6" -> 6 [] c = "7" -> 7
    [] c = "8" -> 8 [] c = "9" -> 9

NoErr == "nil"
ErrSyntax == "strconv.Atoi: invalid syntax"

\* Value of a sequence of decimal digits, most significant first.
RECURSIVE DecVal(_)
DecVal(ds) ==
  IF ds = << >> THEN 0
  ELSE 10 * DecVal(SubSeq(ds, 1, Len(ds) - 1)) + DigitVal(ds[Len(ds)])

\* strconv.Atoi: an optional sign followed by one or more decimal digits.
\* (Values here stay far inside the range of int, so ErrRange never arises.)
Atoi(s) ==
  LET cs     == Chars[s]
      signed == cs # << >> /\ cs[1] \in { "-", "+" }
      ds     == IF signed THEN Tail(cs) ELSE cs
  IN  IF ds = << >> \/ \E k \in 1..Len(ds) : ds[k] \notin Digits
        THEN [val |-> 0, err |-> ErrSyntax]
        ELSE [val |-> IF signed /\ cs[1] = "-" THEN 0 - DecVal(ds) ELSE DecVal(ds),
              err |-> NoErr]

(***************************************************************************)
(* Configuration, defaults and the switch registry                         *)
(***************************************************************************)

DBPortNumber == 5432

\* outMode values.  The help text of -m names them: "2=subsystems,1=all".
printAll == 1
printSubsys == 2
\* First value past the supported modes (the enumeration's end marker).
OutModeLast == 3

\* The exported fields of configuration (the ones encoding/json can set).
\* The unexported cmdlineNeeds map is a reference to the heap object held in
\* the variable cmdlineNeeds.
Fields ==
  { "DBTargetDB", "DBUrl", "DBUser", "DBPassword", "Symbol", "Jout",
    "ExcludedBefore", "ExcludedAfter", "TargetSubsys",
    "Instance", "MaxDepth", "Mode", "DBPort" }

\* The field values of the package variable defaultConfig.
DefaultFields ==
  [ DBUrl          |-> "dbs.hqhome163.com",
    DBPort         |-> DBPortNumber,
    DBUser         |-> "alessandro",
    DBPassword     |-> "<password>",
    DBTargetDB     |-> "kernel_bin",
    Symbol         |-> "",
    Instance       |-> 0,
    Mode           |-> printSubsys,
    ExcludedBefore |-> << >>,
    ExcludedAfter  |-> << >>,
    TargetSubsys   |-> << >>,
    MaxDepth       |-> 0,
    Jout           |-> "graphOnly" ]

\* cmdLineItems appended by pushCmdLineItem: id is the position in the slice.
pushCmdLineItem(switchStr, hasArg, needed, function, cmdLine) ==
  Append(cmdLine, [ id |-> Len(cmdLine) + 1, switchStr |-> switchStr,
                    hasArg |-> hasArg, needed |-> needed, function |-> function ])

\* Mutant of cmdLineItemInit: the DB port switch is registered before the
\* DB password switch.
cmdLineItemInit_PortFirst ==
  LET r0  == << >>
      r1  == pushCmdLineItem("-j", TRUE,  FALSE, "funcOutType",  r0)
      r2  == pushCmdLineItem("-s", TRUE,  TRUE,  "funcSymbol",   r1)
      r3  == pushCmdLineItem("-i", TRUE,  TRUE,  "funcInstance", r2)
      r4  == pushCmdLineItem("-f", TRUE,  FALSE, "funcJconf",    r3)
      r5  == pushCmdLineItem("-u", TRUE,  FALSE, "funcDBUser",   r4)
      r6  == pushCmdLineItem("-p", TRUE,  FALSE, "funcDBPort",   r5)
      r7  == pushCmdLineItem("-d", TRUE,  FALSE, "funcDBHost",   r6)
      r8  == pushCmdLineItem("-p", TRUE,  FALSE, "funcDBPass",   r7)
      r9  == pushCmdLineItem("-m", TRUE,  FALSE, "funcMode",     r8)
      r10 == pushCmdLineItem("-x", TRUE,  FALSE, "funcDepth",    r9)
      r11 == pushCmdLineItem("-h", FALSE, FALSE, "funcHelp",     r10)
  IN  r11

\* The registry, in registration order.  "-p" is registered twice.
cmdLineItemInit ==
  LET r0  == << >>
      r1  == pushCmdLineItem("-j", TRUE,  FALSE, "funcOutType",  r0)
      r2  == pushCmdLineItem("-s", TRUE,  TRUE,  "funcSymbol",   r1)
      r3  == pushCmdLineItem("-i", TRUE,  TRUE,  "funcInstance", r2)
      r4  == pushCmdLineItem("-f", TRUE,  FALSE, "funcJconf",    r3)
      r5  == pushCmdLineItem("-u", TRUE,  FALSE, "funcDBUser",   r4)
      r6  == pushCmdLineItem("-p", TRUE,  FALSE, "funcDBPass",   r5)
      r7  == pushCmdLineItem("-d", TRUE,  FALSE, "funcDBHost",   r6)
      r8  == pushCmdLineItem("-p", TRUE,  FALSE, "funcDBPort",   r7)
      r9  == pushCmdLineItem("-m", TRUE,  FALSE, "funcMode",     r8)
      r10 == pushCmdLineItem("-x", TRUE,  FALSE, "funcDepth",    r9)
      r11 == pushCmdLineItem("-h", FALSE, FALSE, "funcHelp",     r10)
  IN  r11

\* The argument of argsParse: main passes the registry.
lines == cmdLineItemInit

(***************************************************************************)
(* The config file read by funcJconf                                       *)
(***************************************************************************)

\* JSON documents a config file may hold: any subset of the fields.  One
\* document also carries a key named after the unexported field cmdlineNeeds.
EmptyDoc == [ k \in {} |-> 0 ]

Docs ==
  { EmptyDoc,
    [ Symbol |-> "bar" ],
    [ DBPort |-> 6543 ],
    [ Symbol |-> "bar", Instance |-> 7, cmdlineNeeds |-> << "-s", "-i" >> ],
    [ MaxDepth |-> 0 - 3, TargetSubsys |-> << "net" >> ] }

\* What the file system holds under the name given to -f: nothing, bytes
\* that are not JSON, or a document.
Files ==
  { [ exists |-> FALSE, json |-> FALSE, doc |-> EmptyDoc ],
    [ exists |-> TRUE,  json |-> FALSE, doc |-> EmptyDoc ] }
  \cup { [ exists |-> TRUE, json |-> TRUE, doc |-> d ] : d \in Docs }

NoFile == [ exists |-> FALSE, json |-> FALSE, doc |-> EmptyDoc ]

ErrOpen    == "open: no such file or directory"
ErrJson    == "json: invalid character"
ErrHelp    == "command help"
ErrDepth   == "depth must be >= 0"
ErrMode    == "unsupported mode"
ErrNoArg   == "missing switch arg"
ErrNeeded  == "missing needed arg"
ErrPanic   == "panic: index out of range"

\* Mutant of Unmarshal: the document is decoded into a fresh configuration,
\* so a field it does not mention falls back to its default.
Unmarshal_Replace(doc, conf) ==
  [ k \in DOMAIN conf |-> IF k \in DOMAIN doc THEN doc[k] ELSE DefaultFields[k] ]

\* json.Unmarshal onto a struct: a key that names an exported field sets it,
\* a field the document does not mention keeps its value, other keys are
\* ignored.
Unmarshal(doc, conf) ==
  [ k \in DOMAIN conf |-> IF k \in DOMAIN doc THEN doc[k] ELSE conf[k] ]

(***************************************************************************)
(* Handlers: each returns the configuration it leaves and its error        *)
(***************************************************************************)

\* Mutant of funcHelp: help is not reported as an error.
funcHelp_Nil(conf, fn) == [ conf |-> conf, err |-> NoErr ]

funcHelp(conf, fn) == [ conf |-> conf, err |-> ErrHelp ]

funcOutType(conf, jout) == [ conf |-> [conf EXCEPT !.Jout = jout[1]], err |-> NoErr ]

\* jsonFile.Close() on one of n open handles.
Close(n) == n - 1

\* Mutant of funcJconf: the handle is closed at the end of the function body
\* instead of by a deferred call, so the error return skips the Close.
funcJconf_NoDefer(conf, fn, file) ==
  IF ~file.exists THEN [ conf |-> conf, err |-> ErrOpen, fd |-> 0 ]
  ELSE IF ~file.json THEN [ conf |-> conf, err |-> ErrJson, fd |-> 1 ]
  ELSE [ conf |-> Unmarshal(file.doc, conf), err |-> NoErr, fd |-> Close(1) ]

\* os.Open, deferred Close, io.ReadAll, json.Unmarshal.  fd is the number of
\* handles the call leaves open: none when os.Open fails (the defer is not
\* yet registered), and the deferred Close runs on both returns after it.
\* The error of io.ReadAll is discarded: a failed read leaves bytes that
\* json.Unmarshal is given like any others.
funcJconf(conf, fn, file) ==
  IF ~file.exists THEN [ conf |-> conf, err |-> ErrOpen, fd |-> 0 ]
  ELSE IF ~file.json THEN [ conf |-> conf, err |-> ErrJson, fd |-> Close(1) ]
  ELSE [ conf |-> Unmarshal(file.doc, conf), err |-> NoErr, fd |-> Close(1) ]

\* Mutant of funcSymbol: a symbol already set is kept.
funcSymbol_FirstWins(conf, fn) ==
  [ conf |-> IF conf.Symbol = "" THEN [conf EXCEPT !.Symbol = fn[1]] ELSE conf,
    err |-> NoErr ]

funcSymbol(conf, fn) == [ conf |-> [conf EXCEPT !.Symbol = fn[1]], err |-> NoErr ]

funcDBUser(conf, user) == [ conf |-> [conf EXCEPT !.DBUser = user[1]], err |-> NoErr ]

funcDBPass(conf, pass) == [ conf |-> [conf EXCEPT !.DBPassword = pass[1]], err |-> NoErr ]

funcDBHost(conf, host) == [ conf |-> [conf EXCEPT !.DBUrl = host[1]], err |-> NoErr ]

funcDBPort(conf, port) ==
  LET a == Atoi(port[1])
  IN  IF a.err # NoErr THEN [ conf |-> conf, err |-> a.err ]
      ELSE [ conf |-> [conf EXCEPT !.DBPort = a.val], err |-> NoErr ]

\* Mutant of funcDepth: the test is s <= 0.
funcDepth_Positive(conf, depth) ==
  LET a == Atoi(depth[1])
  IN  IF a.err # NoErr THEN [ conf |-> conf, err |-> a.err ]
      ELSE IF a.val <= 0 THEN [ conf |-> conf, err |-> ErrDepth ]
      ELSE [ conf |-> [conf EXCEPT !.MaxDepth = a.val], err |-> NoErr ]

funcDepth(conf, depth) ==
  LET a == Atoi(depth[1])
  IN  IF a.err # NoErr THEN [ conf |-> conf, err |-> a.err ]
      ELSE IF a.val < 0 THEN [ conf |-> conf, err |-> ErrDepth ]
      ELSE [ conf |-> [conf EXCEPT !.MaxDepth = a.val], err |-> NoErr ]

\* Mutant of funcInstance: the value is stored in MaxDepth as well.
funcInstance_AlsoDepth(conf, instance) ==
  LET a == Atoi(instance[1])
  IN  IF a.err # NoErr THEN [ conf |-> conf, err |-> a.err ]
      ELSE [ conf |-> [conf EXCEPT !.Instance = a.val, !.MaxDepth = a.val],
             err |-> NoErr ]

funcInstance(conf, instance) ==
  LET a == Atoi(instance[1])
  IN  IF a.err # NoErr THEN [ conf |-> conf, err |-> a.err ]
      ELSE [ conf |-> [conf EXCEPT !.Instance = a.val], err |-> NoErr ]

\* Mutant of funcMode: the lower test is outMode(s) <= printAll.
funcMode_OffByOne(conf, mode) ==
  LET a == Atoi(mode[1])
  IN  IF a.err # NoErr THEN [ conf |-> conf, err |-> a.err ]
      ELSE IF a.val <= printAll \/ a.val >= OutModeLast
        THEN [ conf |-> conf, err |-> ErrMode ]
      ELSE [ conf |-> [conf EXCEPT !.Mode = a.val], err |-> NoErr ]

funcMode(conf, mode) ==
  LET a == Atoi(mode[1])
  IN  IF a.err # NoErr THEN [ conf |-> conf, err |-> a.err ]
      ELSE IF a.val < printAll \/ a.val >= OutModeLast
        THEN [ conf |-> conf, err |-> ErrMode ]
      ELSE [ conf |-> [conf EXCEPT !.Mode = a.val], err |-> NoErr ]

\* Call of a handler through its function value (argFunc).  Every handler
\* but funcHelp indexes its argument slice, which panics on an empty one.
Call(function, conf, fn, file) ==
  IF function = "funcHelp" THEN funcHelp(conf, fn)
  ELSE IF fn = << >> THEN [ conf |-> conf, err |-> ErrPanic ]
  ELSE CASE function = "funcOutType"  -> funcOutType(conf, fn)
         [] function = "funcJconf"    -> funcJconf(conf, fn, file)
         [] function = "funcSymbol"   -> funcSymbol(conf, fn)
         [] function = "funcDBUser"   -> funcDBUser(conf, fn)
         [] function = "funcDBPass"   -> funcDBPass(conf, fn)
         [] function = "funcDBHost"   -> funcDBHost(conf, fn)
         [] function = "funcDBPort"   -> funcDBPort(conf, fn)
         [] function = "funcDepth"    -> funcDepth(conf, fn)
         [] function = "funcInstance" -> funcInstance(conf, fn)
         [] function = "funcMode"     -> funcMode(conf, fn)

(***************************************************************************)
(* State                                                                   *)
(***************************************************************************)

VARIABLES
  pc,             \* "idle": argsParse not called yet; "scan": in the loop over
                  \* os.Args[1:]; "done": argsParse has returned ret
  defaultConfig,  \* the fields of the package variable defaultConfig
  cmdlineNeeds,   \* the map object defaultConfig.cmdlineNeeds refers to; the
                  \* struct copy "conf = defaultConfig" copies the reference,
                  \* so conf.cmdlineNeeds is this same object
  conf,           \* the fields of argsParse's local conf
  extra,          \* argsParse's local extra
  f,              \* argsParse's local f ("nil" until a switch sets it)
  osArg,          \* the element of os.Args[1:] read last ("" before the first)
  nargs,          \* how many elements of os.Args[1:] have been read
  byteValue,      \* the file funcJconf read last in this call (NoFile if none)
  ret,            \* the (configuration, error) pair argsParse returned
  \* History of the current call, recorded from the inputs alone:
  inSwitchPos,    \* osArg was read with extra = false (in switch position)
  swSeen,         \* the registered tokens read in switch position
  lastArg,        \* per registered token: the argument read after its last
                  \* occurrence in switch position (<< >> if none)
  tokSeen,        \* the registered tokens read, in any position
  overridden,     \* the registered tokens whose last argument replaced a
                  \* different earlier one
  argsOK,         \* every argument read so far was valid for its switch
  overlaid,       \* fields carried by a document overlaid after the last
                  \* occurrence of the field's own switch
  eos,            \* the call ended because os.Args[1:] was exhausted
  vocab,          \* the vocabulary os.Args[1:] of this call is drawn from
  called,         \* the handlers invoked by the last loop iteration, in order
  handles,        \* how many file handles the process holds open
  seenAtEntry,    \* when this call began, the map cmdlineNeeds held true for
                  \* every mandatory switch (left there by the call before)
  okCalls,        \* the handlers that were invoked and returned nil in this call
  lastFile        \* what the file system held under the last argument of -f

vars ==
  << pc, defaultConfig, cmdlineNeeds, conf, extra, f, osArg, nargs, byteValue,
     ret, inSwitchPos, swSeen, lastArg, tokSeen, overridden, argsOK, overlaid,
     eos, vocab,
     called, handles, seenAtEntry, okCalls, lastFile >>

SwitchTokens == { lines[k].switchStr : k \in 1..Len(lines) }

\* Tokens of the registered switches that take an argument.
ArgSwitchTokens ==
  { lines[k].switchStr : k \in { j \in 1..Len(lines) : lines[j].hasArg } }

\* Tokens of the mandatory switches.
NeededTokens ==
  { lines[k].switchStr : k \in { j \in 1..Len(lines) : lines[j].needed } }

\* m[k] = v on a Go map.
MapSet(m, k, v) ==
  [ x \in DOMAIN m \cup {k} |-> IF x = k THEN v ELSE m[x] ]

EmptyMap == [ x \in {} |-> FALSE ]

NoRet == [ conf |-> DefaultFields, err |-> NoErr ]

\* The field a switch token is documented to set (used by the history only).
SwitchField ==
  [ t \in SwitchTokens |->
      CASE t = "-j" -> "Jout"
        [] t = "-s" -> "Symbol"
        [] t = "-i" -> "Instance"
        [] t = "-u" -> "DBUser"
        [] t = "-p" -> "DBPassword"
        [] t = "-d" -> "DBUrl"
        [] t = "-m" -> "Mode"
        [] t = "-x" -> "MaxDepth"
        [] OTHER    -> "" ]

\* Decimal value of the integer tokens of the alphabet, written out by hand.
IntValue ==
  [ t \in { "0", "1", "2", "3", "5", "99", "-1" } |->
      CASE t = "0" -> 0 [] t = "1" -> 1 [] t = "2" -> 2 [] t = "3" -> 3
        [] t = "5" -> 5
        [] t = "99" -> 99 [] t = "-1" -> 0 - 1 ]

\* The modes the help text of -m documents.
SupportedModes == { 1, 2 }

\* An argument that its switch is documented to accept.
ValidArg(sw, tok, file) ==
  CASE sw = "-i" -> tok \in DOMAIN IntValue
    [] sw = "-x" -> tok \in DOMAIN IntValue /\ IntValue[tok] >= 0
    [] sw = "-m" -> tok \in DOMAIN IntValue /\ IntValue[tok] \in SupportedModes
    [] sw = "-f" -> file.exists /\ file.json
    [] OTHER     -> TRUE

(***************************************************************************)
(* argsParse                                                               *)
(***************************************************************************)

Init ==
  /\ pc = "idle"
  /\ defaultConfig = DefaultFields
  /\ cmdlineNeeds = EmptyMap
  /\ conf = DefaultFields
  /\ extra = FALSE
  /\ f = "nil"
  /\ osArg = ""
  /\ nargs = 0
  /\ byteValue = NoFile
  /\ ret = NoRet
  /\ inSwitchPos = FALSE
  /\ swSeen = {}
  /\ lastArg = [ t \in SwitchTokens |-> << >> ]
  /\ tokSeen = {}
  /\ overridden = {}
  /\ argsOK = TRUE
  /\ overlaid = {}
  /\ eos = FALSE
  /\ vocab = {}
  /\ called = << >>
  /\ handles = 0
  /\ seenAtEntry = FALSE
  /\ okCalls = {}
  /\ lastFile = NoFile

\* Mutant of Failed: the working configuration is returned with the error.
Failed_Partial(dc, c, err) == [ conf |-> c, err |-> err ]

\* "return defaultConfig, err": the caller gets the package default, not the
\* working configuration c.
Failed(dc, c, err) == [ conf |-> dc, err |-> err ]

\* Mutant of AfterLoop: res is accumulated with || instead of &&.
AfterLoop_AnyNeeded(ex, needs, c, dc) ==
  IF ex THEN [ conf |-> dc, err |-> ErrNoArg ]
  ELSE IF \E k \in DOMAIN needs : needs[k]
    THEN [ conf |-> c, err |-> NoErr ]
    ELSE [ conf |-> dc, err |-> ErrNeeded ]

\* Mutant of AfterLoop: the pending argument is not checked.
AfterLoop_NoPending(ex, needs, c, dc) ==
  IF \A k \in DOMAIN needs : needs[k]
    THEN [ conf |-> c, err |-> NoErr ]
    ELSE [ conf |-> dc, err |-> ErrNeeded ]

\* Mutant of AfterLoop: a mandatory switch counts as supplied when its field
\* differs from the default, whoever set it.
AfterLoop_FieldsSet(ex, needs, c, dc) ==
  IF ex THEN [ conf |-> dc, err |-> ErrNoArg ]
  ELSE IF c.Symbol # dc.Symbol /\ c.Instance # dc.Instance
    THEN [ conf |-> c, err |-> NoErr ]
    ELSE [ conf |-> dc, err |-> ErrNeeded ]

\* The code after the loop: a pending argument, then the required switches.
AfterLoop(ex, needs, c, dc) ==
  IF ex THEN Failed(dc, c, ErrNoArg)
  ELSE IF \A k \in DOMAIN needs : needs[k]
    THEN [ conf |-> c, err |-> NoErr ]
    ELSE Failed(dc, c, ErrNeeded)

\* Mutant of NeedsReset: an entry is set to false only when the map does not
\* hold it yet, so an entry left true by an earlier call stays true.
NeedsReset_Once(needs, k) ==
  [ x \in DOMAIN needs \cup NeededTokens |->
      IF x \in DOMAIN needs THEN needs[x] ELSE FALSE ]

\* for _, item := range lines { if item.needed { conf.cmdlineNeeds[...] = false } }
RECURSIVE NeedsReset(_, _)
NeedsReset(needs, k) ==
  IF k > Len(lines) THEN needs
  ELSE NeedsReset(IF lines[k].needed THEN MapSet(needs, lines[k].switchStr, FALSE)
                                     ELSE needs,
                  k + 1)

\* Entry of argsParse up to the loop over os.Args[1:].
argsParseBegin(v) ==
  /\ pc \in { "idle", "done" }
  /\ vocab' = v
  /\ pc' = "scan"
  /\ extra' = FALSE
  /\ conf' = defaultConfig
  /\ f' = "nil"
  /\ cmdlineNeeds' = NeedsReset(cmdlineNeeds, 1)
  /\ osArg' = ""
  /\ nargs' = 0
  /\ byteValue' = NoFile
  /\ ret' = NoRet
  /\ inSwitchPos' = FALSE
  /\ swSeen' = {}
  /\ lastArg' = [ t \in SwitchTokens |-> << >> ]
  /\ tokSeen' = {}
  /\ overridden' = {}
  /\ argsOK' = TRUE
  /\ overlaid' = {}
  /\ eos' = FALSE
  /\ called' = << >>
  /\ seenAtEntry' = \A k \in NeededTokens : k \in DOMAIN cmdlineNeeds /\ cmdlineNeeds[k]
  /\ okCalls' = {}
  /\ lastFile' = NoFile
  /\ UNCHANGED << defaultConfig, handles >>

\* Mutant of Aborts: the error a handler returns is not examined.
Aborts_Never(err) == FALSE

\* if err != nil { return defaultConfig, err } after a handler call.
Aborts(err) == err # NoErr

\* Mutant of Matches: only the first character of the token is compared.
Matches_FirstChar(arg, tok) == tok \in Tokens /\ Chars[tok][1] = "-"

\* if arg.switchStr == osArg
Matches(arg, tok) == arg.switchStr = tok

\* The inner loop "for _, arg := range lines" from descriptor k on, for the
\* token osArg read with extra = false.  st carries the locals it changes.
RECURSIVE MatchLoop(_, _, _)
MatchLoop(st, tok, k) ==
  IF k > Len(lines) THEN st
  ELSE
    LET arg == lines[k]
    IN  IF ~Matches(arg, tok) THEN MatchLoop(st, tok, k + 1)
        ELSE
          LET st1 == IF arg.needed
                       THEN [st EXCEPT !.needs = MapSet(st.needs, arg.switchStr, TRUE)]
                       ELSE st
          IN  IF arg.hasArg
                THEN [st1 EXCEPT !.f = arg.function, !.extra = TRUE]
                ELSE
                  LET r == Call(arg.function, st1.conf, << >>, NoFile)
                      st2 == [st1 EXCEPT !.conf = r.conf,
                                         !.called = Append(st1.called, arg.function)]
                  IN  IF Aborts(r.err) THEN [st2 EXCEPT !.err = r.err]
                      ELSE MatchLoop([st2 EXCEPT !.ok = st2.ok \cup {arg.function}],
                                     tok, k + 1)

\* One iteration of the outer loop with extra = false: osArg is looked up
\* in the registry.
ScanSwitch(tok) ==
  /\ pc = "scan"
  /\ ~extra
  /\ nargs < MaxArgs
  /\ tok \in vocab
  /\ \E r \in { MatchLoop([ needs |-> cmdlineNeeds, f |-> f, extra |-> extra,
                             conf |-> conf, err |-> NoErr, called |-> << >>,
                             ok |-> okCalls ],
                           tok, 1) } :
         /\ cmdlineNeeds' = r.needs
         /\ f' = r.f
         /\ extra' = r.extra
         /\ conf' = r.conf
         /\ called' = r.called
         /\ okCalls' = r.ok
         /\ IF r.err # NoErr
              THEN pc' = "done" /\ ret' = Failed(defaultConfig, r.conf, r.err)
              ELSE pc' = "scan" /\ ret' = ret
  /\ osArg' = tok
  /\ nargs' = nargs + 1
  /\ inSwitchPos' = TRUE
  /\ swSeen' = IF tok \in SwitchTokens THEN swSeen \cup {tok} ELSE swSeen
  /\ tokSeen' = IF tok \in SwitchTokens THEN tokSeen \cup {tok} ELSE tokSeen
  /\ overlaid' = IF tok \in SwitchTokens THEN overlaid \ { SwitchField[tok] } ELSE overlaid
  /\ UNCHANGED << defaultConfig, byteValue, lastArg, overridden, argsOK, eos, vocab,
                  handles, seenAtEntry, lastFile >>

\* Mutant of ArgBranch: extra is not cleared after the handler call.
ArgBranch_KeepsAwaiting(function, c, tok, file) ==
  LET r == Call(function, c, << tok >>, file)
  IN  [ conf |-> r.conf, err |-> r.err, returns |-> Aborts(r.err), extra |-> TRUE,
        fd |-> IF function = "funcJconf" THEN r.fd ELSE 0 ]

\* The branch "if extra" of the outer loop: the token is the sole element of
\* the argument slice of the remembered handler; on an error the call
\* returns, otherwise extra is cleared.  fd is the number of handles the
\* handler left open.
ArgBranch(function, c, tok, file) ==
  LET r == Call(function, c, << tok >>, file)
  IN  [ conf |-> r.conf, err |-> r.err, returns |-> Aborts(r.err),
        extra |-> Aborts(r.err),
        fd |-> IF function = "funcJconf" THEN r.fd ELSE 0 ]

\* One iteration of the outer loop with extra = true: osArg is the argument
\* of the remembered handler f.  file is what the file system holds under the
\* name osArg, read only by funcJconf.
ScanArgument(tok, file) ==
  /\ pc = "scan"
  /\ extra
  /\ nargs < MaxArgs
  /\ tok \in vocab
  /\ \E r \in { ArgBranch(f, conf, tok, file) } :
         /\ conf' = r.conf
         /\ handles' = handles + r.fd
         /\ extra' = r.extra
         /\ IF r.returns
              THEN /\ pc' = "done"
                   /\ ret' = Failed(defaultConfig, r.conf, r.err)
                   /\ okCalls' = okCalls
              ELSE /\ pc' = "scan"
                   /\ ret' = ret
                   /\ okCalls' = IF r.err = NoErr THEN okCalls \cup {f} ELSE okCalls
  /\ byteValue' = IF f = "funcJconf" /\ file.exists THEN file ELSE byteValue
  /\ lastFile' = IF f = "funcJconf" THEN file ELSE lastFile
  /\ called' = << f >>
  /\ osArg' = tok
  /\ nargs' = nargs + 1
  /\ inSwitchPos' = FALSE
  /\ tokSeen' = IF tok \in SwitchTokens THEN tokSeen \cup {tok} ELSE tokSeen
  /\ lastArg' = [lastArg EXCEPT ![osArg] = << tok >>]
  /\ overridden' = IF lastArg[osArg] \notin { << >>, << tok >> }
                     THEN overridden \cup {osArg} ELSE overridden
  /\ argsOK' = (argsOK /\ ValidArg(osArg, tok, file))
  /\ overlaid' = IF osArg = "-f" /\ file.exists /\ file.json
                   THEN overlaid \cup (DOMAIN file.doc \cap Fields)
                   ELSE overlaid
  /\ UNCHANGED << defaultConfig, cmdlineNeeds, f, swSeen, eos, vocab, seenAtEntry >>

\* os.Args[1:] is exhausted: the code after the loop.
argsParseEnd ==
  /\ pc = "scan"
  /\ pc' = "done"
  /\ eos' = TRUE
  /\ called' = << >>
  /\ ret' = AfterLoop(extra, cmdlineNeeds, conf, defaultConfig)
  /\ UNCHANGED << defaultConfig, cmdlineNeeds, conf, extra, f, osArg, nargs,
                  byteValue, inSwitchPos, swSeen, lastArg, tokSeen, overridden, argsOK,
                  overlaid, vocab, handles, seenAtEntry, okCalls, lastFile >>

Next ==
  \/ \E v \in Vocabularies : argsParseBegin(v)
  \/ \E tok \in Tokens : ScanSwitch(tok)
  \/ \E tok \in Tokens, file \in Files : ScanArgument(tok, file)
  \/ argsParseEnd

Spec == Init /\ [][Next]_vars

(***************************************************************************)
(* Properties                                                              *)
(***************************************************************************)

\* The value a switch is documented to store for an argument token.
ArgValue(sw, tok) ==
  IF sw \in { "-i", "-m", "-x" } THEN IntValue[tok] ELSE tok

\* The switches that store their argument in a field of their own.
FieldSwitches == { t \in SwitchTokens : SwitchField[t] # "" }

\* The last token read is an argument-taking switch still waiting for its
\* argument.
Dangling == inSwitchPos /\ osArg \in ArgSwitchTokens

\* The stream read so far holds every mandatory switch in switch position,
\* a valid argument after every argument-taking switch, and no -h.
WellFormedStream ==
  /\ NeededTokens \subseteq swSeen
  /\ argsOK
  /\ ~Dangling
  /\ "-h" \notin tokSeen

\* C1 as stated: a well-formed stream resolves with a nil error, and every
\* field set by a switch holds the argument of the last occurrence of that
\* switch.
C1_Original ==
  (pc = "done" /\ WellFormedStream) =>
     /\ ret.err = NoErr
     /\ \A sw \in FieldSwitches :
          lastArg[sw] # << >> =>
            ret.conf[SwitchField[sw]] = ArgValue(sw, lastArg[sw][1])

\* C1 amended: a well-formed stream resolves with a nil error, and every
\* field set by a switch holds the argument of the last occurrence of that
\* switch, unless a document overlaid by a later -f carries the field.
C1_LastOccurrenceWins ==
  (pc = "done" /\ WellFormedStream) =>
     /\ ret.err = NoErr
     /\ \A sw \in FieldSwitches :
          (lastArg[sw] # << >> /\ SwitchField[sw] \notin overlaid) =>
            ret.conf[SwitchField[sw]] = ArgValue(sw, lastArg[sw][1])

\* -s was given twice with different arguments and the parse resolved.
C1_Witness ==
  /\ pc = "done" /\ WellFormedStream
  /\ "-s" \in overridden
  /\ lastArg["-s"] = << "foo" >>
  /\ ret.conf.Symbol = "foo"

\* C2: whenever argsParse returns an error, every field of the returned
\* configuration has its process default value.
C2_FailureReturnsDefaults ==
  (pc = "done" /\ ret.err # NoErr) => ret.conf = DefaultFields

\* A handler and an overlay had changed the working configuration before
\* the failure.
C2_Witness ==
  /\ pc = "done" /\ ret.err # NoErr
  /\ conf.Symbol = "foo"
  /\ byteValue.json /\ conf.DBPort = 6543

\* C3 as stated: a stream in which a mandatory switch never appears fails
\* with "missing needed arg".
C3_Original ==
  (pc = "done" /\ ~(NeededTokens \subseteq tokSeen)) => ret.err = ErrNeeded

\* C3 amended: a stream in which a mandatory switch never appears in switch
\* position fails; the error is "missing needed arg" unless the scan stops
\* before the validation (an invalid argument, -h, or a last switch without
\* its argument).
C3_MissingRequired ==
  (pc = "done" /\ ~(NeededTokens \subseteq swSeen)) =>
     /\ ret.err # NoErr
     /\ (argsOK /\ "-h" \notin swSeen /\ ~Dangling) => ret.err = ErrNeeded

\* -s and -j were supplied with arguments, -i was not, and validation failed.
C3_Witness ==
  /\ pc = "done" /\ ret.err = ErrNeeded
  /\ swSeen = { "-s", "-j" }
  /\ lastArg["-s"] # << >> /\ lastArg["-j"] # << >>

\* C4 as stated: a stream whose final token is the token of an
\* argument-taking switch fails with "missing switch arg".
C4_Original ==
  (pc = "done" /\ eos /\ osArg \in ArgSwitchTokens) => ret.err = ErrNoArg

\* C4 amended: a stream whose final token is an argument-taking switch read
\* in switch position (not as the argument of the switch before it), with no
\* failure before it, fails with "missing switch arg".
C4_MissingArgument ==
  (pc = "done" /\ Dangling /\ argsOK /\ "-h" \notin swSeen) => ret.err = ErrNoArg

\* Both mandatory switches were supplied before the dangling -j.
C4_Witness ==
  /\ pc = "done" /\ Dangling /\ ret.err = ErrNoArg
  /\ osArg = "-j"
  /\ NeededTokens \subseteq swSeen

\* C5 as stated: a stream that contains -h at any position returns the help
\* sentinel.
C5_Original ==
  (pc = "done" /\ "-h" \in tokSeen) => ret.err = ErrHelp

\* C5 amended: once -h is read in switch position the parse has returned the
\* help sentinel and that -h is the last token processed: funcHelp is the
\* last handler invoked and nothing is read after it.
C5_HelpAborts ==
  "-h" \in swSeen =>
     /\ pc = "done" /\ ret.err = ErrHelp
     /\ osArg = "-h" /\ inSwitchPos
     /\ called = << "funcHelp" >>
     /\ ~eos

\* -h came after switches that had already changed the configuration.
C5_Witness ==
  /\ "-h" \in swSeen
  /\ ret.err = ErrHelp
  /\ conf.Symbol = "foo" /\ cmdlineNeeds["-s"]

\* A loop iteration that reads a token equal to no registered switch token.
ReadUnknown ==
  pc = "scan" /\ nargs' = nargs + 1 /\ osArg' \notin SwitchTokens

\* The iteration leaves everything the rest of the parse depends on as it
\* was, so the stream with the token and the stream without it end alike.
ParserUnchanged ==
  /\ pc' = "scan" /\ ret' = ret
  /\ conf' = conf /\ cmdlineNeeds' = cmdlineNeeds
  /\ extra' = extra /\ f' = f

\* C6 as stated: a token equal to no registered switch token, inserted at
\* any position, does not affect the parse.
C6_Original == [][ReadUnknown => ParserUnchanged]_vars

\* C6 amended: a token equal to no registered switch token, inserted at a
\* position where the parser expects a switch (not directly after an
\* argument-taking switch), does not affect the parse.
C6_UnknownIgnored == [][(ReadUnknown /\ ~extra) => ParserUnchanged]_vars

\* A stream that ends with the unregistered token foo in switch position,
\* after both mandatory switches, resolves.
C6_Witness ==
  /\ pc = "done" /\ ret.err = NoErr
  /\ inSwitchPos /\ osArg = "foo"
  /\ ret.conf.Symbol = "1"

\* A loop iteration in which the handler remembered for switch token sw
\* consumes its argument.
Consumes(sw) ==
  pc = "scan" /\ extra /\ osArg = sw /\ nargs' = nargs + 1

\* C7: when funcJconf succeeds, every configuration field the document
\* carries holds the document's value and every other field keeps the value
\* it had before the overlay.
C7_MergeByPresence ==
  [][(Consumes("-f") /\ pc' = "scan") =>
       /\ byteValue'.json
       /\ \A k \in Fields :
            conf'[k] = IF k \in DOMAIN byteValue'.doc THEN byteValue'.doc[k]
                                                      ELSE conf[k]]_vars

\* A document carrying only DBPort was overlaid on a configuration whose
\* Symbol and Instance had been set by switches; both kept their values.
C7_Witness ==
  /\ pc = "scan" /\ called = << "funcJconf" >>
  /\ byteValue.doc = [ DBPort |-> 6543 ]
  /\ conf.DBPort = 6543
  /\ conf.Symbol = "foo" /\ conf.Instance = 1

\* C8 as stated: at most one handler runs per token, -p runs the password
\* handler, funcDBPort never runs, and DBPort keeps its default whatever
\* the command line is.
C8_Original ==
  /\ Len(called) <= 1
  /\ called # << "funcDBPort" >>
  /\ called = << "funcDBPass" >> => conf.DBPassword = lastArg["-p"][1]
  /\ conf.DBPort = DBPortNumber

\* C8 amended: exactly one handler runs for a matched token (for an
\* argument-taking switch when its argument is read, for -h at once) and
\* none for any other token, "-p v" runs only the password handler and sets
\* DBPassword to v, funcDBPort never runs, and DBPort is changed by no switch
\* other than a -f whose document carries DBPort.
C8_FirstRegisteredWins ==
  /\ [](called # << "funcDBPort" >>)
  /\ [][(pc = "scan" /\ nargs' = nargs + 1) =>
          Len(called') = IF extra \/ osArg' = "-h" THEN 1 ELSE 0]_vars
  /\ [][Consumes("-p") =>
          /\ called' = << "funcDBPass" >>
          /\ pc' = "scan"
          /\ conf' = [conf EXCEPT !.DBPassword = osArg']]_vars
  /\ [][(pc = "scan" /\ conf'.DBPort # conf.DBPort) =>
          /\ Consumes("-f")
          /\ "DBPort" \in DOMAIN byteValue'.doc]_vars

\* "-p 5" has set the password to "5" and left DBPort alone.
C8_Witness ==
  /\ called = << "funcDBPass" >>
  /\ conf.DBPassword = "5"
  /\ conf.DBPort = DBPortNumber

\* C9: "-x n" sets MaxDepth to n and the scan goes on when n >= 0; it fails
\* with "depth must be >= 0" when n < 0; an argument that is no integer
\* fails too.
C9_DepthNonNegative ==
  [][Consumes("-x") =>
       IF osArg' \in DOMAIN IntValue
         THEN IF IntValue[osArg'] >= 0
                THEN /\ pc' = "scan"
                     /\ conf' = [conf EXCEPT !.MaxDepth = IntValue[osArg']]
                ELSE /\ pc' = "done"
                     /\ ret' = [ conf |-> DefaultFields, err |-> ErrDepth ]
         ELSE pc' = "done" /\ ret'.err \notin { NoErr, ErrDepth }]_vars

\* "-x 5" succeeded and a later "-x -1" failed.
C9_Witness ==
  /\ pc = "done" /\ ret.err = ErrDepth
  /\ lastArg["-x"] = << "-1" >>
  /\ conf.MaxDepth = 5

C11_Original ==
  [][defaultConfig' = defaultConfig /\ cmdlineNeeds' = cmdlineNeeds]_vars

\* The map holds an entry for every mandatory switch, and each is false.
TrackerClear ==
  \A k \in NeededTokens : k \in DOMAIN cmdlineNeeds /\ ~cmdlineNeeds[k]

\* C12 as stated: in every call of a sequence of calls the tracker entry of
\* every mandatory switch is false when the scan begins, and a call whose
\* stream omits a mandatory switch fails with "missing needed arg", whatever
\* the calls before it saw.
C12_Original ==
  /\ (pc = "scan" /\ nargs = 0) => TrackerClear
  /\ (pc = "done" /\ ~(NeededTokens \subseteq tokSeen)) => ret.err = ErrNeeded

\* C12 amended: in every call of a sequence of calls the tracker entry of
\* every mandatory switch is false when the scan begins, and a call whose
\* stream has a mandatory switch missing from switch position fails, whatever
\* the calls before it saw; the error is "missing needed arg" whenever the
\* scan reaches the validation (no invalid argument, no -h, no last switch
\* without its argument).
C12_NoCarryOver ==
  /\ (pc = "scan" /\ nargs = 0) => TrackerClear
  /\ (pc = "done" /\ ~(NeededTokens \subseteq swSeen)) =>
        /\ ret.err # NoErr
        /\ (argsOK /\ "-h" \notin swSeen /\ ~Dangling) => ret.err = ErrNeeded

\* The call before this one saw -s and -i; this one saw -s with an argument
\* but no -i, and failed the validation.
C12_Witness ==
  /\ pc = "done" /\ eos /\ seenAtEntry
  /\ swSeen = { "-s" } /\ lastArg["-s"] # << >> /\ "-i" \notin tokSeen
  /\ ret.err = ErrNeeded

\* The error the handler of switch sw returns for the argument tok, by the
\* documentation of the switch (0 - 1 < 0 for -x, outside 1..2 for -m).
HandlerError(sw, tok) ==
  CASE sw = "-f" -> IF lastFile.exists THEN ErrJson ELSE ErrOpen
    [] sw \in { "-x", "-m" } /\ tok \in DOMAIN IntValue ->
         IF sw = "-x" THEN ErrDepth ELSE ErrMode
    [] OTHER -> ErrSyntax

\* C13: a handler error ends the call at once.  When a handler has failed
\* (an invalid argument was read, or -h in switch position) the call has
\* returned before the end of os.Args[1:], the failing token is the last one
\* read, its handler is the last one invoked, the tracker holds true for
\* exactly the mandatory switches read up to that token, and the error is the
\* handler's, with the default configuration; once the call has returned,
\* nothing is read, invoked or marked until the next call begins.
C13_FailureAborts ==
  /\ [](( ~argsOK \/ "-h" \in swSeen ) =>
          /\ pc = "done" /\ ~eos
          /\ ret.conf = DefaultFields
          /\ ret.err \notin { NoErr, ErrNeeded, ErrNoArg }
          /\ IF inSwitchPos
               THEN osArg = "-h" /\ called = << "funcHelp" >> /\ ret.err = ErrHelp
               ELSE /\ called = << f >>
                    /\ \E sw \in ArgSwitchTokens :
                         /\ lastArg[sw] = << osArg >>
                         /\ ret.err = HandlerError(sw, osArg)
          /\ \A k \in NeededTokens : cmdlineNeeds[k] <=> k \in swSeen)
  /\ [][pc = "done" => (pc' = "scan" /\ nargs' = 0 /\ called' = << >>)]_vars

\* "-i foo": the handler of -i failed on its argument; -s is missing, but
\* the error is the handler's.
C13_Witness ==
  /\ pc = "done" /\ ~argsOK /\ swSeen = { "-i" } /\ lastArg["-i"] = << "foo" >>
  /\ ret.err = ErrSyntax /\ nargs = 2

\* The handler registered first for each argument-taking switch token.
HandlerOf ==
  [ t \in ArgSwitchTokens |->
      CASE t = "-j" -> "funcOutType"  [] t = "-s" -> "funcSymbol"
        [] t = "-i" -> "funcInstance" [] t = "-f" -> "funcJconf"
        [] t = "-u" -> "funcDBUser"   [] t = "-p" -> "funcDBPass"
        [] t = "-d" -> "funcDBHost"   [] t = "-m" -> "funcMode"
        [] t = "-x" -> "funcDepth" ]

\* C14: the token read while an argument is awaited is given to the
\* remembered handler alone and is not looked up in the registry, whatever
\* the token is: exactly the handler of the pending switch is invoked, the
\* tracker and the set of switches seen do not change, -s and -j store the
\* token as it is (also a token such as -i or -h, which then requests no
\* help), and when the handler succeeds the scan is back in the state that
\* expects a switch.
C14_ArgumentNotDispatched ==
  [][\A sw \in ArgSwitchTokens :
       Consumes(sw) =>
         /\ called' = << HandlerOf[sw] >>
         /\ cmdlineNeeds' = cmdlineNeeds
         /\ swSeen' = swSeen
         /\ ret'.err # ErrHelp
         /\ sw = "-s" => (pc' = "scan" /\ conf' = [conf EXCEPT !.Symbol = osArg'])
         /\ sw = "-j" => (pc' = "scan" /\ conf' = [conf EXCEPT !.Jout = osArg'])
         /\ pc' = "scan" => (~extra' /\ okCalls' = okCalls \cup { HandlerOf[sw] })
         /\ pc' = "done" => ret'.err # NoErr]_vars

\* "-s -i 1": -i was read as the argument of -s, so Symbol is "-i", -i is
\* not satisfied and the validation fails.
C14_Witness ==
  /\ pc = "done" /\ eos /\ nargs = 3 /\ osArg = "1"
  /\ lastArg["-s"] = << "-i" >> /\ conf.Symbol = "-i"
  /\ swSeen = { "-s" } /\ "-i" \in tokSeen
  /\ ~cmdlineNeeds["-i"] /\ ret.err = ErrNeeded

\* The tracker of a parser that marks a mandatory switch when its handler
\* has returned nil, instead of when its token matches.
MarkedOnSuccess == [ k \in NeededTokens |-> HandlerOf[k] \in okCalls ]

\* What that parser returns at the end of os.Args[1:].
OutcomeOnSuccess ==
  IF extra THEN [ conf |-> DefaultFields, err |-> ErrNoArg ]
  ELSE IF \A k \in NeededTokens : MarkedOnSuccess[k]
    THEN [ conf |-> conf, err |-> NoErr ]
    ELSE [ conf |-> DefaultFields, err |-> ErrNeeded ]

\* C15: whenever the validation of the mandatory switches is reached (the
\* call returns nil or "missing needed arg"), the tracker entry of a
\* mandatory switch is true exactly when the handler of that switch was
\* invoked and returned nil in this call, and at the end of os.Args[1:] the
\* parser returns what a parser marking on handler success returns.
C15_MarkOnMatchEquivalent ==
  (pc = "done" /\ eos) =>
     /\ ret.err \in { NoErr, ErrNeeded } =>
          \A k \in NeededTokens : cmdlineNeeds[k] <=> MarkedOnSuccess[k]
     /\ ret = OutcomeOnSuccess

\* The validation was reached with -i matched twice and its handler
\* successful, and -s never matched.
C15_Witness ==
  /\ pc = "done" /\ eos /\ ~extra /\ ret.err = ErrNeeded
  /\ "-i" \in overridden /\ "funcInstance" \in okCalls /\ cmdlineNeeds["-i"]
  /\ "funcSymbol" \notin okCalls /\ ~cmdlineNeeds["-s"]

\* The document read last by -f carries both Symbol and Instance.
FileSupplies ==
  /\ byteValue.exists /\ byteValue.json
  /\ { "Symbol", "Instance" } \subseteq DOMAIN byteValue.doc

\* C16 as stated: an overlay loaded with -f never changes the tracker, and
\* a stream that gets Symbol and Instance from the config file and omits -s
\* or -i fails with "missing needed arg".
C16_Original ==
  /\ [][Consumes("-f") => cmdlineNeeds' = cmdlineNeeds]_vars
  /\ []((pc = "done" /\ FileSupplies /\ ~(NeededTokens \subseteq tokSeen)) =>
          ret.err = ErrNeeded)

\* C16 amended: an overlay loaded with -f never changes the tracker, and a
\* stream that gets Symbol and Instance from the config file and has -s or
\* -i missing from switch position fails; the error is "missing needed arg"
\* whenever the scan reaches the validation (no invalid argument, no -h, no
\* last switch without its argument).
C16_OverlayDoesNotSatisfy ==
  /\ [][Consumes("-f") => cmdlineNeeds' = cmdlineNeeds]_vars
  /\ []((pc = "done" /\ FileSupplies /\ ~(NeededTokens \subseteq swSeen)) =>
          /\ ret.err # NoErr
          /\ (argsOK /\ "-h" \notin swSeen /\ ~Dangling) => ret.err = ErrNeeded)

\* "-f cfg" alone, where cfg carries Symbol, Instance and a key cmdlineNeeds:
\* the working configuration has both values, and the validation fails.
C16_Witness ==
  /\ pc = "done" /\ eos /\ swSeen = { "-f" } /\ FileSupplies
  /\ "cmdlineNeeds" \in DOMAIN byteValue.doc
  /\ conf.Symbol = "bar" /\ conf.Instance = 7
  /\ ~cmdlineNeeds["-s"] /\ ~cmdlineNeeds["-i"]
  /\ ret.err = ErrNeeded

\* C17 as stated: every configuration returned with a nil error has
\* MaxDepth >= 0 and a Mode among the supported modes, also when the stream
\* combines -x, -m and a -f overlay whose document carries these fields.
C17_Original ==
  (pc = "done" /\ ret.err = NoErr) =>
     /\ ret.conf.MaxDepth >= 0
     /\ ret.conf.Mode \in printAll .. (OutModeLast - 1)

\* The switch tokens documented for a field (-p is documented both for the
\* DB password and for the DB port).
SwitchesOf(field) ==
  { sw \in SwitchTokens : SwitchField[sw] = field }
    \cup (IF field = "DBPort" THEN { "-p" } ELSE {})

\* C18: a handler that consumes the argument of a switch leaves every field
\* but the switch's own as it was, and in every configuration returned with
\* a nil error a field none of whose switches occurred in switch position
\* and that no overlaid document carried has its default value.
C18_OnlyOwnField ==
  /\ [][\A sw \in FieldSwitches :
          Consumes(sw) =>
            \A k \in Fields \ { SwitchField[sw] } : conf'[k] = conf[k]]_vars
  /\ []((pc = "done" /\ ret.err = NoErr) =>
          \A k \in Fields :
            (SwitchesOf(k) \cap swSeen = {} /\ k \notin overlaid) =>
               ret.conf[k] = DefaultFields[k])

\* "-s foo -i 2 -x 3" resolves to Symbol foo, Instance 2, MaxDepth 3 and the
\* default of every other field.
C18_Witness ==
  /\ pc = "done" /\ ret.err = NoErr /\ nargs = 6
  /\ lastArg["-s"] = << "foo" >> /\ lastArg["-i"] = << "2" >>
  /\ lastArg["-x"] = << "3" >>
  /\ ret.conf = [DefaultFields EXCEPT !.Symbol = "foo", !.Instance = 2,
                                      !.MaxDepth = 3]

\* C19: no file handle is open in any state of the parser outside a handler
\* call: funcJconf has closed the handle it opened when it returns, with the
\* overlay applied or with the decoding error; when the open fails it
\* returns the I/O error, and the call fails with that error and the default
\* configuration.
C19_HandleScoped ==
  /\ [](handles = 0)
  /\ [][Consumes("-f") =>
          /\ called' = << "funcJconf" >>
          /\ ~lastFile'.exists =>
               (pc' = "done" /\ ret' = [ conf |-> DefaultFields, err |-> ErrOpen ])
          /\ (lastFile'.exists /\ ~lastFile'.json) =>
               (pc' = "done" /\ ret' = [ conf |-> DefaultFields, err |-> ErrJson ])
          /\ (lastFile'.exists /\ lastFile'.json) =>
               (pc' = "scan" /\ conf' = Unmarshal(lastFile'.doc, conf))]_vars

\* A second -f, after a successful overlay, opened a file that is not JSON:
\* the call failed with the decoding error and the handle is closed.
C19_Witness ==
  /\ pc = "done" /\ ret.err = ErrJson /\ handles = 0
  /\ lastFile.exists /\ ~lastFile.json
  /\ "funcJconf" \in okCalls /\ overlaid # {}

====
